---- MODULE Spec2Model ----
(***************************************************************************)
(* Model of the RAG knowledge base of src/rag_knowledgebase.py: the        *)
(* paragraph chunker, the SQLite store with its metadata table, vec0       *)
(* vector table and trigger-maintained FTS5 table, the Notion sync, the    *)
(* lexical, vector and hybrid search, and the context formatter.           *)
(*                                                                         *)
(* Strings are sequences of one-character strings.  The store is kept as   *)
(* two databases: `db` is what is durable (committed), `view` is what the  *)
(* open connection sees (committed rows plus the pending transaction).     *)
(***************************************************************************)
EXTENDS Bags, FiniteSets, Integers, Sequences, TLC

VARIABLES
    db,           \* committed (durable) database
    view,         \* database as seen through the open connection
    last,         \* the last call made on the connection and its outcome
    clean,        \* no store_chunks / clear_source call has raised so far
    interrupted,  \* pages whose sync raised after invalidation, not re-run yet
    failedBatch,  \* ids inserted by a store_chunks call that raised
    clearPartial, \* ids whose clear_source raised between its two deletes
    doc,          \* chunker input: the document text
    size,         \* chunker input: chunk_size
    result,       \* chunker output, or NoResult before the call
    query,        \* search input: text, embedding, top_k, weights, scoring
    hits,         \* the outcomes of the hybrid_search calls made with `query`
    context,      \* format_context_for_prompt: max_chars and the string made
    assigned,     \* ids handed out by INSERTs: highest so far, highest durable
    bot,          \* telegram_hitl: the module globals and the polling state
    run           \* main(): its position, the post, and what Mastodon was asked

vars == <<db, view, last, clean, interrupted, failedBatch,
          clearPartial, doc, size, result, query, hits, context,
          assigned, bot, run>>

storeVars == <<db, view, last, clean, interrupted, failedBatch,
               clearPartial, assigned>>

chunkVars == <<doc, size, result>>

searchVars == <<query, hits, context>>

approvalVars == <<bot, run>>

----------------------------------------------------------------------------
(* Bounds of the model.                                                    *)

MaxDocLen == 5

MaxChunkSize == 3

MaxSeq == 2

MaxParas == 3

MaxRows == 3

MaxScore == 2

MaxTopK == 2

MaxResults == 36

(* Program constants.                                                      *)

EMBEDDING_DIM == 384

DefaultChunkSize == 800

DefaultMaxChars == 4000

----------------------------------------------------------------------------
(* Generic helpers.                                                        *)

SetMax(S) == CHOOSE x \in S : \A y \in S : y <= x

SetMin(S) == CHOOSE x \in S : \A y \in S : x <= y

RECURSIVE SortedSeq(_)
SortedSeq(S) ==
    IF S = {} THEN <<>>
    ELSE LET m == SetMin(S) IN <<m>> \o SortedSeq(S \ {m})

RECURSIVE SumSeq(_)
SumSeq(s) == IF s = <<>> THEN 0 ELSE Head(s) + SumSeq(Tail(s))

RECURSIVE Flatten(_)
Flatten(ss) == IF ss = <<>> THEN <<>> ELSE Head(ss) \o Flatten(Tail(ss))

Repeat(ch, n) == [i \in 1..n |-> ch]

NL == "\n"

----------------------------------------------------------------------------
(* Python string operations used by chunk_document.                        *)

Whitespace == {" ", NL}

\* str.strip(): drop leading and trailing whitespace.
strip(s) ==
    LET keep == {i \in 1..Len(s) : s[i] \notin Whitespace}
    IN  IF keep = {} THEN <<>> ELSE SubSeq(s, SetMin(keep), SetMax(keep))

\* Position of the first "\n\n" at or after `from`, 0 when there is none.
NextSep(s, from) ==
    LET at == {i \in from..(Len(s) - 1) : s[i] = NL /\ s[i + 1] = NL}
    IN  IF at = {} THEN 0 ELSE SetMin(at)

\* str.split('\n\n'): non-overlapping separators taken left to right.
RECURSIVE SplitFrom(_, _)
SplitFrom(s, from) ==
    LET i == NextSep(s, from)
    IN  IF i = 0 THEN <<SubSeq(s, from, Len(s))>>
        ELSE <<SubSeq(s, from, i - 1)>> \o SplitFrom(s, i + 2)

split(s) == SplitFrom(s, 1)

\* '\n\n'.join(parts)
RECURSIVE join(_)
join(parts) ==
    IF parts = <<>> THEN <<>>
    ELSE IF Len(parts) = 1 THEN parts[1]
    ELSE parts[1] \o <<NL, NL>> \o join(Tail(parts))

\* [p.strip() for p in content.split('\n\n') if p.strip()]
paragraphs(content) ==
    LET parts == split(content)
        stripped == [i \in 1..Len(parts) |-> strip(parts[i])]
    IN  SelectSeq(stripped, LAMBDA p : p # <<>>)

----------------------------------------------------------------------------
(* chunk_document                                                          *)

\* The chunk record built at lines 141-149 and 159-167 (the creation
\* timestamp of the metadata is not modelled).
MakeChunk(current_chunk, source_id) ==
    LET chunk_content == join(current_chunk)
    IN  [content     |-> chunk_content,
         source_type |-> "notion",
         source_id   |-> source_id,
         metadata    |-> [char_count |-> Len(chunk_content)]]

FlushNeededGE(current_size, para_size, chunk_size, current_chunk) ==
    current_size + para_size >= chunk_size /\ current_chunk # <<>>

FlushNeededFits(current_size, para_size, chunk_size, current_chunk) ==
    /\ current_size + para_size > chunk_size
    /\ current_size <= chunk_size
    /\ current_chunk # <<>>

\* The flush test of the loop.
FlushNeeded(current_size, para_size, chunk_size, current_chunk) ==
    current_size + para_size > chunk_size /\ current_chunk # <<>>

\* The for loop over the paragraphs, from paragraph i on.
RECURSIVE ChunkLoop(_, _, _, _, _, _, _)
ChunkLoop(paras, i, source_id, chunk_size, chunks, current_chunk, current_size) ==
    IF i > Len(paras)
    THEN [chunks |-> chunks, current_chunk |-> current_chunk]
    ELSE LET para == paras[i]
             para_size == Len(para)
             flush == FlushNeeded(current_size, para_size, chunk_size, current_chunk)
             chunks1 == IF flush
                        THEN Append(chunks, MakeChunk(current_chunk, source_id))
                        ELSE chunks
             cur1 == IF flush THEN <<>> ELSE current_chunk
             size1 == IF flush THEN 0 ELSE current_size
         IN  ChunkLoop(paras, i + 1, source_id, chunk_size, chunks1,
                       Append(cur1, para), size1 + para_size)

chunk_document_no_final_flush(content, source_id, chunk_size) ==
    ChunkLoop(paragraphs(content), 1, source_id, chunk_size, <<>>, <<>>, 0).chunks

chunk_document(content, source_id, chunk_size) ==
    LET end == ChunkLoop(paragraphs(content), 1, source_id, chunk_size,
                         <<>>, <<>>, 0)
    IN  IF end.current_chunk # <<>>
        THEN Append(end.chunks, MakeChunk(end.current_chunk, source_id))
        ELSE end.chunks

----------------------------------------------------------------------------
(* The database: embeddings_meta, vec_embeddings, embeddings_fts and the   *)
(* AUTOINCREMENT counter kept in sqlite_sequence.                          *)

EmptyDB == [meta |-> {}, vec |-> {}, fts |-> EmptyBag, seq |-> 0]

MetaIds(d) == {r.id : r \in d.meta}

VecIds(d) == {v.rowid : v \in d.vec}

FtsIds(d) == {e.rowid : e \in BagToSet(d.fts)}

SourceIds(d, source_id) == {r.id : r \in {x \in d.meta : x.source_id = source_id}}

FtsEntry(row) ==
    [rowid |-> row.id, content |-> row.content,
     source_type |-> row.source_type, source_id |-> row.source_id]

embeddings_ai_twice(fts, new) ==
    fts (+) SetToBag({FtsEntry(new)}) (+) SetToBag({FtsEntry(new)})

\* Trigger embeddings_ai: AFTER INSERT ON embeddings_meta.
embeddings_ai(fts, new) == fts (+) SetToBag({FtsEntry(new)})

\* Trigger embeddings_ad: AFTER DELETE ON embeddings_meta.
embeddings_ad(fts, old) == fts (-) SetToBag({FtsEntry(old)})

NextIdFromRows(d) == (IF d.meta = {} THEN 0 ELSE SetMax(MetaIds(d))) + 1

\* INTEGER PRIMARY KEY AUTOINCREMENT: one more than the largest rowid ever
\* used in the table, which sqlite_sequence remembers.
NextId(d) ==
    (IF d.meta = {} THEN d.seq
     ELSE IF SetMax(MetaIds(d)) > d.seq THEN SetMax(MetaIds(d)) ELSE d.seq) + 1

\* INSERT INTO embeddings_meta (...), with the insert trigger.
InsertMeta(d, chunk) ==
    LET row == [id          |-> NextId(d),
                source_type |-> chunk.source_type,
                source_id   |-> chunk.source_id,
                content     |-> chunk.content,
                metadata    |-> chunk.metadata]
    IN  [d EXCEPT !.meta = @ \cup {row},
                  !.seq  = row.id,
                  !.fts  = embeddings_ai(@, row)]

\* INSERT INTO vec_embeddings (rowid, embedding): vec0 accepts only a
\* float[EMBEDDING_DIM] blob and a rowid not in the table yet.
VecAccepts(d, rowid, embedding) ==
    embedding.dim = EMBEDDING_DIM /\ rowid \notin VecIds(d)

InsertVec(d, rowid, embedding) ==
    [d EXCEPT !.vec = @ \cup {[rowid |-> rowid, embedding |-> embedding]}]

DeleteVecSkip(d, ids) == d

\* DELETE FROM vec_embeddings WHERE rowid IN (ids)
DeleteVec(d, ids) == [d EXCEPT !.vec = {v \in @ : v.rowid \notin ids}]

RECURSIVE FireDeleteTrigger(_, _)
FireDeleteTrigger(fts, rows) ==
    IF rows = {} THEN fts
    ELSE LET r == CHOOSE x \in rows : TRUE
         IN  FireDeleteTrigger(embeddings_ad(fts, r), rows \ {r})

DeleteMetaSkip(d, ids) == d

DeleteMetaAll(d, ids) == [d EXCEPT !.meta = {}, !.fts = EmptyBag]

\* DELETE FROM embeddings_meta WHERE id IN (ids), with the delete trigger.
DeleteMeta(d, ids) ==
    LET gone == {r \in d.meta : r.id \in ids}
    IN  [d EXCEPT !.meta = @ \ gone,
                  !.fts  = FireDeleteTrigger(@, gone)]

----------------------------------------------------------------------------
(* The embedding provider.  `provider` is what the model call does: it     *)
(* raises or returns one vector per text, of the dimensions it   *)
(* was drawn with.  A vector is identified by the text it embeds.          *)

Dims == {EMBEDDING_DIM, 2 * EMBEDDING_DIM}

\* With no text to embed the provider is not called.
Providers(n) ==
    IF n = 0 THEN {[raises |-> FALSE, dims |-> <<>>]}
    ELSE {[raises |-> TRUE, dims |-> <<>>]} \cup
         {[raises |-> FALSE, dims |-> f] : f \in [1..n -> Dims]}

\* texts = [chunk["content"] for chunk in chunks]
Contents(chunks) == [i \in 1..Len(chunks) |-> chunks[i].content]

generate_embeddings_batch(texts, provider) ==
    [i \in 1..Len(texts) |-> [of |-> texts[i], dim |-> provider.dims[i]]]

----------------------------------------------------------------------------
(* store_chunks and clear_source.  A connection is [view, db]; a call      *)
(* returns the connection after it, whether it raised, and the ids it      *)
(* touched.  Python's sqlite3 opens a transaction before the first INSERT  *)
(* or DELETE and nothing rolls it back when a statement raises.            *)

\* conn.commit()
Commit(c) == [c EXCEPT !.db = c.view]

\* The for loop over zip(chunks, embeddings), from pair i on.
RECURSIVE StoreLoop(_, _, _, _, _)
StoreLoop(d, chunks, embeddings, i, ids) ==
    IF i > Len(chunks) \/ i > Len(embeddings)
    THEN [d |-> d, raised |-> FALSE, ids |-> ids]
    ELSE LET d1 == InsertMeta(d, chunks[i])
             meta_id == d1.seq
         IN  IF VecAccepts(d1, meta_id, embeddings[i])
             THEN StoreLoop(InsertVec(d1, meta_id, embeddings[i]), chunks,
                            embeddings, i + 1, ids \cup {meta_id})
             ELSE [d |-> d1, raised |-> TRUE, ids |-> ids \cup {meta_id}]

\* The end of store_chunks: the exception leaves the function, or the
\* transaction is committed.
StoreEnd(c, end) ==
    IF end.raised
    THEN [c |-> [c EXCEPT !.view = end.d], raised |-> TRUE, ids |-> end.ids]
    ELSE [c |-> Commit([c EXCEPT !.view = end.d]), raised |-> FALSE,
          ids |-> end.ids]

store_chunks(c, chunks, provider) ==
    IF chunks = <<>>
    THEN [c |-> c, raised |-> FALSE, ids |-> {}]
    ELSE IF provider.raises
    THEN [c |-> c, raised |-> TRUE, ids |-> {}]
    ELSE StoreEnd(c, StoreLoop(c.view, chunks,
                               generate_embeddings_batch(Contents(chunks), provider),
                               1, {}))

\* `fault` is the statement the environment makes fail: "none",
\* "vec_delete" (the first DELETE) or "meta_delete" (the second one).
Faults == {"none", "vec_delete", "meta_delete"}

ClearIdsVecOnly(c, ids_to_delete, fault) ==
    IF ids_to_delete = {}
    THEN [c |-> c, raised |-> FALSE, ids |-> {}, half |-> {}]
    ELSE IF fault = "vec_delete"
    THEN [c |-> c, raised |-> TRUE, ids |-> ids_to_delete, half |-> {}]
    ELSE IF fault = "meta_delete"
    THEN [c |-> [c EXCEPT !.view = DeleteVec(c.view, ids_to_delete)],
          raised |-> TRUE, ids |-> ids_to_delete,
          half |-> ids_to_delete \cap VecIds(c.view)]
    ELSE [c |-> Commit([c EXCEPT !.view = DeleteVec(c.view, ids_to_delete)]),
          raised |-> FALSE, ids |-> ids_to_delete, half |-> {}]

\* clear_source once ids_to_delete is known.
ClearIds(c, ids_to_delete, fault) ==
    IF ids_to_delete = {}
    THEN [c |-> c, raised |-> FALSE, ids |-> {}, half |-> {}]
    ELSE IF fault = "vec_delete"
    THEN [c |-> c, raised |-> TRUE, ids |-> ids_to_delete, half |-> {}]
    ELSE IF fault = "meta_delete"
    THEN [c |-> [c EXCEPT !.view = DeleteVec(c.view, ids_to_delete)],
          raised |-> TRUE, ids |-> ids_to_delete,
          half |-> ids_to_delete \cap VecIds(c.view)]
    ELSE [c |-> Commit([c EXCEPT !.view =
                          DeleteMeta(DeleteVec(c.view, ids_to_delete),
                                     ids_to_delete)]),
          raised |-> FALSE, ids |-> ids_to_delete, half |-> {}]

clear_source_always_commits(c, source_id, fault) ==
    [ClearIds(c, SourceIds(c.view, source_id), fault) EXCEPT !.c = Commit(@)]

clear_source(c, source_id, fault) ==
    ClearIds(c, SourceIds(c.view, source_id), fault)

----------------------------------------------------------------------------
(* sync_notion_page.  `fetch` is what get_page_content does: it raises     *)
(* NotionError or returns the page's text.  `steps` lists the steps run.   *)

Fetches(docs) ==
    {[ok |-> FALSE, text |-> <<>>]} \cup {[ok |-> TRUE, text |-> d] : d \in docs}

\* The end of a sync whose clear_source returned: st is what store_chunks did.
SyncStored(cl, chunks, st) ==
    [c |-> st.c,
     outcome |-> IF st.raised THEN "store_failed" ELSE "ok",
     ret |-> IF st.raised THEN 0 ELSE Len(chunks),
     steps |-> <<"fetch", "clear", "chunk", "store">>,
     ids |-> st.ids, half |-> {}, cleared |-> cl.ids]

SyncChunked(cl, chunks, provider) ==
    SyncStored(cl, chunks, store_chunks(cl.c, chunks, provider))

\* A sync after its fetch returned: cl is what clear_source did.
SyncCleared(cl, page_id, fetch, provider) ==
    IF cl.raised
    THEN [c |-> cl.c, outcome |-> "clear_failed", ret |-> 0,
          steps |-> <<"fetch", "clear">>, ids |-> {},
          half |-> cl.half, cleared |-> {}]
    ELSE SyncChunked(cl, chunk_document(fetch.text, page_id, DefaultChunkSize),
                     provider)

sync_notion_page_clear_first(c, page_id, fetch, fault, provider) ==
    IF page_id = ""
    THEN [c |-> c, outcome |-> "no_page_id", ret |-> 0, steps |-> <<>>,
          ids |-> {}, half |-> {}, cleared |-> {}]
    ELSE IF ~fetch.ok
    THEN [c |-> clear_source(c, page_id, "none").c, outcome |-> "fetch_failed",
          ret |-> 0, steps |-> <<"fetch">>, ids |-> {}, half |-> {},
          cleared |-> {}]
    ELSE SyncCleared(clear_source(c, page_id, fault), page_id, fetch, provider)

sync_notion_page(c, page_id, fetch, fault, provider) ==
    IF page_id = ""
    THEN [c |-> c, outcome |-> "no_page_id", ret |-> 0, steps |-> <<>>,
          ids |-> {}, half |-> {}, cleared |-> {}]
    ELSE IF ~fetch.ok
    THEN [c |-> c, outcome |-> "fetch_failed", ret |-> 0, steps |-> <<"fetch">>,
          ids |-> {}, half |-> {}, cleared |-> {}]
    ELSE SyncCleared(clear_source(c, page_id, fault), page_id, fetch, provider)

----------------------------------------------------------------------------
(* The store as a state machine: calls made on one connection, and the     *)
(* process ending (by a crash or db.close()) and opening the store again.  *)

Pages == {"p1", "p2"}

DocEmpty == <<>>

\* Two paragraphs: one chunk at the default chunk size, two at size 1.
DocTwo == <<"a", NL, NL, "b">>

StoreDocs == {DocEmpty, DocTwo}

\* The chunk sizes callers of chunk_document pass before store_chunks.
StoreSizes == {1, DefaultChunkSize}

Conn == [view |-> view, db |-> db]

\* Contents of the chunks of a source, in id order.
Stored(d, source_id) ==
    LET ids == SortedSeq(SourceIds(d, source_id))
    IN  [i \in 1..Len(ids) |->
            (CHOOSE r \in d.meta : r.id = ids[i]).content]

\* No id has been assigned yet.
NoneAssigned == [high |-> 0, durable |-> 0, new |-> {}]

\* send_for_approval has not been called: the module globals as the import
\* leaves them.
NoBot == [polling |-> FALSE, feedback_decision |-> "None",
          feedback_reason |-> "None", feedback_done |-> FALSE,
          has_image |-> FALSE, handled |-> 0, update |-> <<>>,
          at_done |-> <<>>, returned |-> <<>>]

\* Nothing has been run: neither main() nor the posting script.
NoRun == [pc |-> "idle", entry |-> "none", dry_run |-> TRUE, length |-> 0,
          image |-> "none", decision |-> "None", feedback |-> "None",
          calls |-> <<>>]

\* No search has been prepared, made or formatted.
NoQuery == [text |-> <<>>, embedding |-> [of |-> <<>>, dim |-> EMBEDDING_DIM],
            top_k |-> 0, bm25_weight |-> 0, semantic_weight |-> 0,
            rank |-> <<>>, dist |-> <<>>]

NoHits == [calls |-> 0, first |-> <<>>, second |-> <<>>]

NoContext == [called |-> FALSE, results |-> <<>>, max_chars |-> 0,
              text |-> <<>>, parts |-> <<>>]

\* The record of a call: what was called, on which source, how it ended
\* ("ok", or what raised), what it returned, and for a sync the steps it ran,
\* the text it fetched and whether it repeats the sync before it.
Call(op, src, outcome, text, cleared) ==
    [op |-> op, src |-> src, outcome |-> outcome, ret |-> 0, steps |-> <<>>,
     doc |-> text, fetched |-> FALSE, cleared |-> cleared,
     again |-> FALSE, prevRet |-> 0, prevStored |-> <<>>]

NoCall == Call("none", "", "", <<>>, {})

\* The ids that can still show up in a committed state of this connection:
\* ids are never assigned twice on one connection, so an id that is in
\* neither database any more is forgotten.
Live(ids, c) ==
    ids \cap (MetaIds(c.view) \cup MetaIds(c.db) \cup VecIds(c.view) \cup VecIds(c.db))

\* The call before this one was a successful sync of the same page that
\* fetched the same text.
Again(s, fetch) ==
    /\ last.op = "sync" /\ last.outcome = "ok"
    /\ fetch.ok /\ last.src = s /\ last.doc = fetch.text

Init ==
    /\ db = EmptyDB
    /\ view = EmptyDB
    /\ last = NoCall
    /\ clean = TRUE
    /\ interrupted = {}
    /\ failedBatch = {}
    /\ clearPartial = {}
    /\ doc = <<>>
    /\ size = DefaultChunkSize
    /\ result = [called |-> FALSE, chunks |-> <<>>]
    /\ query = NoQuery
    /\ hits = NoHits
    /\ context = NoContext
    /\ assigned = NoneAssigned
    /\ bot = NoBot
    /\ run = NoRun

\* The ids handed out so far once a call has inserted `inserted`: after a
\* commit all of them are durable.
Assigned(inserted, c) ==
    [high    |-> SetMax({assigned.high} \cup inserted),
     durable |-> IF c.db = c.view
                 THEN SetMax({assigned.high} \cup inserted)
                 ELSE assigned.durable,
     new     |-> inserted]

\* The connection and the bookkeeping after a call that ended as r.
Applied(r, call, s, raised, newFailed, newHalf, interrupts, inserted) ==
    /\ assigned' = Assigned(inserted, r.c)
    /\ view' = r.c.view
    /\ db' = r.c.db
    /\ last' = call
    /\ clean' = (clean /\ ~raised)
    /\ failedBatch' = Live(failedBatch \cup newFailed, r.c)
    /\ clearPartial' = Live(clearPartial \cup newHalf, r.c)
    /\ interrupted' = IF interrupts = "set" THEN interrupted \cup {s}
                      ELSE IF interrupts = "reset" THEN interrupted \ {s}
                      ELSE interrupted
    /\ UNCHANGED <<chunkVars, searchVars, approvalVars>>

StoreChunksDone(s, d, r) ==
    /\ view.seq + Cardinality(r.ids) <= MaxSeq
    /\ Applied(r, Call("store_chunks", s, IF r.raised THEN "raised" ELSE "ok",
                       d, {}),
               s, r.raised, IF r.raised THEN r.ids ELSE {}, {}, "reset", r.ids)

StoreChunksCall ==
    \E s \in Pages, d \in StoreDocs, k \in StoreSizes :
      \E provider \in Providers(Len(chunk_document(d, s, k))) :
        StoreChunksDone(s, d,
            store_chunks(Conn, chunk_document(d, s, k), provider))

\* A statement of clear_source can only fail when it is run.
FaultsAt(d, source_id) ==
    IF SourceIds(d, source_id) = {} THEN {"none"} ELSE Faults

ClearSourceDone(s, r) ==
    Applied(r, Call("clear_source", s, IF r.raised THEN "raised" ELSE "ok",
                    <<>>, r.ids),
            s, r.raised, {}, r.half, "reset", {})

ClearSourceCall ==
    \E s \in Pages :
      \E fault \in FaultsAt(view, s) :
        ClearSourceDone(s, clear_source(Conn, s, fault))

\* The number of texts a sync hands to the embedding provider: with no page
\* id nothing is fetched, after a failed fetch nothing is cleared, after a
\* failed clear nothing is embedded.
SyncTexts(s, fetch, fault) ==
    IF fetch.ok /\ fault = "none"
    THEN Len(chunk_document(fetch.text, s, DefaultChunkSize))
    ELSE 0

SyncDone(s, fetch, again, r) ==
    /\ view.seq + Cardinality(r.ids) <= MaxSeq
    /\ Applied(r,
               [op |-> "sync", src |-> s, outcome |-> r.outcome,
                ret |-> r.ret, steps |-> r.steps, doc |-> fetch.text,
                fetched |-> (fetch.ok /\ s # ""), cleared |-> r.cleared,
                again |-> again,
                prevRet |-> IF again THEN last.ret ELSE 0,
                prevStored |-> IF again THEN Stored(view, s) ELSE <<>>],
               s, r.outcome \in {"clear_failed", "store_failed"},
               IF r.outcome = "store_failed" THEN r.ids ELSE {},
               r.half,
               IF r.outcome = "store_failed" THEN "set"
               ELSE IF r.outcome \in {"ok", "clear_failed"} THEN "reset"
               ELSE "keep",
               r.ids)

SyncCall ==
    \E s \in Pages \cup {""} :
     \E fetch \in Fetches(IF s = "" THEN {} ELSE StoreDocs) :
      \E fault \in (IF fetch.ok THEN FaultsAt(view, s) ELSE {"none"}) :
       \E provider \in Providers(SyncTexts(s, fetch, fault)) :
         SyncDone(s, fetch, Again(s, fetch),
                  sync_notion_page(Conn, s, fetch, fault, provider))

\* The process ends without a commit (the pending transaction is rolled
\* back) and init_database opens the store again.
Reopen ==
    /\ view' = db
    /\ last' = Call("reopen", "", "ok", <<>>, {})
    /\ interrupted' = {}
    /\ failedBatch' = {}
    /\ clearPartial' = {}
    /\ assigned' = [high |-> assigned.durable, durable |-> assigned.durable,
                     new |-> {}]
    /\ UNCHANGED <<db, clean, chunkVars, searchVars, approvalVars>>

Next == StoreChunksCall \/ ClearSourceCall \/ SyncCall \/ Reopen

Spec == Init /\ [][Next]_vars

----------------------------------------------------------------------------
(* The chunker alone: a document and a chunk size are drawn, then          *)
(* chunk_document is called once.                                          *)

Alphabet == {"a", "b", " ", NL}

Strings(n) == UNION {[1..k -> Alphabet] : k \in 0..n}

\* Paragraphs of 500 and 400 characters separated by a blank line.
ScenarioDoc == Repeat("a", 500) \o <<NL, NL>> \o Repeat("b", 400)

\* Documents of one to MaxParas paragraphs of 1, 2 and 4 characters.
ParaDocs ==
    LET Paras == {<<"a">>, <<"b", "b">>, <<"a", "b", "a", "b">>}
    IN  {join(ps) : ps \in UNION {[1..k -> Paras] : k \in 1..MaxParas}}

ChunkerDocs == Strings(MaxDocLen) \cup ParaDocs \cup {ScenarioDoc}

ChunkSizes == (1..MaxChunkSize) \cup {DefaultChunkSize}

InitChunk ==
    /\ db = EmptyDB
    /\ view = EmptyDB
    /\ last = NoCall
    /\ clean = TRUE
    /\ interrupted = {}
    /\ failedBatch = {}
    /\ clearPartial = {}
    /\ doc \in ChunkerDocs
    /\ size \in ChunkSizes
    /\ result = [called |-> FALSE, chunks |-> <<>>]
    /\ query = NoQuery
    /\ hits = NoHits
    /\ context = NoContext
    /\ assigned = NoneAssigned
    /\ bot = NoBot
    /\ run = NoRun

ChunkCall ==
    /\ ~result.called
    /\ result' = [called |-> TRUE, chunks |-> chunk_document(doc, "p1", size)]
    /\ UNCHANGED <<doc, size, storeVars, searchVars, approvalVars>>

NextChunk == ChunkCall

SpecChunk == InitChunk /\ [][NextChunk]_vars

----------------------------------------------------------------------------
(* Scores.  A float score is kept as the exact fraction [num, den] with    *)
(* den > 0; the weights of hybrid_search are given in tenths.              *)

Rat(n, d) == [num |-> n, den |-> d]

RatLess(a, b) == a.num * b.den < b.num * a.den

RatEq(a, b) == a.num * b.den = b.num * a.den

RatAdd(a, b) == Rat(a.num * b.den + b.num * a.den, a.den * b.den)

\* weight * score for a weight of w tenths.
Weighted(w, a) == Rat(w * a.num, 10 * a.den)

Range(s) == {s[i] : i \in 1..Len(s)}

\* The ids of S ordered by ascending key, equal keys in rowid order.
RECURSIVE SortedBy(_, _)
SortedBy(S, key) ==
    IF S = {} THEN <<>>
    ELSE LET m == CHOOSE x \in S : \A y \in S :
                      key[x] < key[y] \/ (key[x] = key[y] /\ x <= y)
         IN  <<m>> \o SortedBy(S \ {m}, key)

\* LIMIT n, and the slice [:n] for n >= 0.
Limit(s, n) == SubSeq(s, 1, IF n < Len(s) THEN n ELSE Len(s))

----------------------------------------------------------------------------
(* FTS5: the full-text index holds the words of the three indexed columns  *)
(* of every entry; a MATCH query is a list of barewords that must all      *)
(* occur in the entry, and a query with no bareword, or with a character   *)
(* that is not part of a bareword, is a syntax error.                      *)

\* The words of a text: maximal runs of characters other than whitespace.
RECURSIVE WordsFrom(_, _, _)
WordsFrom(s, i, word) ==
    IF i > Len(s)
    THEN (IF word = <<>> THEN <<>> ELSE <<word>>)
    ELSE IF s[i] \in Whitespace
    THEN (IF word = <<>> THEN <<>> ELSE <<word>>) \o WordsFrom(s, i + 1, <<>>)
    ELSE WordsFrom(s, i + 1, Append(word, s[i]))

Words(s) == WordsFrom(s, 1, <<>>)

\* The characters of the values of source_type and source_id.
Chars(str) ==
    CASE str = "notion" -> <<"n", "o", "t", "i", "o", "n">>
      [] str = "p1" -> <<"p", "1">>
      [] str = "p2" -> <<"p", "2">>
      [] OTHER -> <<>>

\* The words indexed for an entry of embeddings_fts.
RowTokens(e) ==
    Range(Words(e.content)) \cup {Chars(e.source_type), Chars(e.source_id)}

BarewordChars == {"a", "b", "z", "p", "n", "o", "t", "i", "1", "2"}

FtsSyntaxOk(text) ==
    /\ Words(text) # <<>>
    /\ \A i \in 1..Len(text) : text[i] \in BarewordChars \cup Whitespace

\* embeddings_fts MATCH ? joined with embeddings_meta on the rowid.
FtsMatches(d, text) ==
    {e.rowid : e \in {x \in BagToSet(d.fts) :
                         \A w \in Range(Words(text)) : w \in RowTokens(x)}}
        \cap MetaIds(d)

MetaRow(d, id) == CHOOSE r \in d.meta : r.id = id

\* bm25_search.  rank[id] is -bm25(embeddings_fts) of the entry for the
\* query; rows come best score first, equal scores in rowid order.
bm25_search(d, text, rank, top_k) ==
    IF ~FtsSyntaxOk(text)
    THEN [raised |-> TRUE, rows |-> <<>>]
    ELSE LET ids == Limit(SortedBy(FtsMatches(d, text),
                                   [id \in FtsMatches(d, text) |-> 0 - rank[id]]),
                          top_k)
         IN  [raised |-> FALSE,
              rows |-> [i \in 1..Len(ids) |->
                          [id          |-> ids[i],
                           content     |-> MetaRow(d, ids[i]).content,
                           source_type |-> MetaRow(d, ids[i]).source_type,
                           source_id   |-> MetaRow(d, ids[i]).source_id,
                           bm25_score  |-> rank[ids[i]]]]]

\* semantic_search.  dist[id] is the cosine distance of the stored vector
\* to the query vector; vec0 raises for a query vector that is not
\* float[EMBEDDING_DIM], returns the k nearest entries, and the join keeps
\* those with a metadata row.
semantic_search(d, query_embedding, dist, top_k) ==
    IF query_embedding.dim # EMBEDDING_DIM
    THEN [raised |-> TRUE, rows |-> <<>>]
    ELSE LET nearest == Limit(SortedBy(VecIds(d), [id \in VecIds(d) |-> dist[id]]),
                              top_k)
             ids == SelectSeq(nearest, LAMBDA id : id \in MetaIds(d))
         IN  [raised |-> FALSE,
              rows |-> [i \in 1..Len(ids) |->
                          [id          |-> ids[i],
                           content     |-> MetaRow(d, ids[i]).content,
                           source_type |-> MetaRow(d, ids[i]).source_type,
                           source_id   |-> MetaRow(d, ids[i]).source_id,
                           distance    |-> dist[ids[i]]]]]

----------------------------------------------------------------------------
(* hybrid_search.                                                          *)

MinMaxNoGuard(score, min_score, max_score) ==
    Rat(score - min_score, max_score - min_score)

\* (score - min) / range, with range = max - min if max != min else 1.
MinMax(score, min_score, max_score) ==
    Rat(score - min_score,
        IF max_score # min_score THEN max_score - min_score ELSE 1)

InvertNot(q) == q

\* 1 - q
Invert(q) == Rat(q.den - q.num, q.den)

\* r['bm25_normalized'] for every lexical result.
NormalizeBm25(bm25_results) ==
    LET scores == {r.bm25_score : r \in Range(bm25_results)}
    IN  [i \in 1..Len(bm25_results) |->
            [id              |-> bm25_results[i].id,
             content         |-> bm25_results[i].content,
             source_type     |-> bm25_results[i].source_type,
             source_id       |-> bm25_results[i].source_id,
             bm25_score      |-> bm25_results[i].bm25_score,
             bm25_normalized |-> MinMax(bm25_results[i].bm25_score,
                                        SetMin(scores), SetMax(scores))]]

\* r['semantic_normalized'] for every vector result.
NormalizeSemantic(semantic_results) ==
    LET dists == {r.distance : r \in Range(semantic_results)}
    IN  [i \in 1..Len(semantic_results) |->
            [id                  |-> semantic_results[i].id,
             content             |-> semantic_results[i].content,
             source_type         |-> semantic_results[i].source_type,
             source_id           |-> semantic_results[i].source_id,
             distance            |-> semantic_results[i].distance,
             semantic_normalized |-> Invert(MinMax(semantic_results[i].distance,
                                                   SetMin(dists), SetMax(dists)))]]

\* An entry of `merged`; final_score is filled in after the merge.
Merged(r, bm25_score, semantic_score) ==
    [id |-> r.id, content |-> r.content, source_type |-> r.source_type,
     source_id |-> r.source_id, bm25_score |-> bm25_score,
     semantic_score |-> semantic_score, final_score |-> Rat(0, 1)]

\* The first loop of the merge: one entry per lexical result.
MergeLexical(bm25_results) ==
    [i \in 1..Len(bm25_results) |->
        Merged(bm25_results[i], bm25_results[i].bm25_normalized, Rat(0, 1))]

MergeOneAppend(merged, r) ==
    Append(merged, Merged(r, Rat(0, 1), r.semantic_normalized))

\* The body of the second loop: the entry of the id gets the semantic
\* score, or a new entry is added at the end of the dict.
MergeOne(merged, r) ==
    IF \E j \in 1..Len(merged) : merged[j].id = r.id
    THEN [j \in 1..Len(merged) |->
             IF merged[j].id = r.id
             THEN [merged[j] EXCEPT !.semantic_score = r.semantic_normalized]
             ELSE merged[j]]
    ELSE Append(merged, Merged(r, Rat(0, 1), r.semantic_normalized))

RECURSIVE MergeSemantic(_, _, _)
MergeSemantic(merged, semantic_results, i) ==
    IF i > Len(semantic_results) THEN merged
    ELSE MergeSemantic(MergeOne(merged, semantic_results[i]),
                       semantic_results, i + 1)

\* result['final_score'] for every entry of `merged`.
FinalScores(merged, bm25_weight, semantic_weight) ==
    [j \in 1..Len(merged) |->
        [merged[j] EXCEPT !.final_score =
            RatAdd(Weighted(bm25_weight, merged[j].bm25_score),
                   Weighted(semantic_weight, merged[j].semantic_score))]]

InsertDescBeforeTies(s, x) ==
    LET n == Cardinality({j \in 1..Len(s) : RatLess(x.final_score, s[j].final_score)})
    IN  SubSeq(s, 1, n) \o <<x>> \o SubSeq(s, n + 1, Len(s))

\* sorted(..., reverse=True) is stable: x goes behind the entries whose
\* score is not smaller.
InsertDesc(s, x) ==
    LET n == Cardinality({j \in 1..Len(s) : ~RatLess(s[j].final_score, x.final_score)})
    IN  SubSeq(s, 1, n) \o <<x>> \o SubSeq(s, n + 1, Len(s))

RECURSIVE SortedByFinal(_, _, _)
SortedByFinal(merged, i, s) ==
    IF i > Len(merged) THEN s
    ELSE SortedByFinal(merged, i + 1, InsertDesc(s, merged[i]))

AfterSelectWipes(c) == [c EXCEPT !.view = EmptyDB]

\* The connection after a SELECT: no transaction is opened and nothing is
\* written.
AfterSelect(c) == c

\* The part of hybrid_search after the two searches returned.
HybridRanked(c, bm25_results, semantic_results, merged, top_k) ==
    [c |-> c, raised |-> "",
     bm25_results |-> bm25_results, semantic_results |-> semantic_results,
     merged |-> merged,
     results |-> Limit(SortedByFinal(merged, 1, <<>>), top_k)]

HybridMerged(c, bm25_results, semantic_results, top_k, bm25_weight, semantic_weight) ==
    HybridRanked(c, bm25_results, semantic_results,
                 FinalScores(MergeSemantic(MergeLexical(bm25_results),
                                           semantic_results, 1),
                             bm25_weight, semantic_weight),
                 top_k)

HybridRaised(c, what) ==
    [c |-> c, raised |-> what, bm25_results |-> <<>>,
     semantic_results |-> <<>>, merged |-> <<>>, results |-> <<>>]

HybridSearched(c, lexical, semantic, top_k, bm25_weight, semantic_weight) ==
    IF lexical.raised THEN HybridRaised(c, "bm25_search")
    ELSE IF semantic.raised THEN HybridRaised(c, "semantic_search")
    ELSE HybridMerged(c, NormalizeBm25(lexical.rows),
                      NormalizeSemantic(semantic.rows),
                      top_k, bm25_weight, semantic_weight)

\* hybrid_search(conn, query, query_embedding, top_k, bm25_weight,
\* semantic_weight); rank and dist are the scores the two indexes give.
hybrid_search(c, text, query_embedding, rank, dist, top_k, bm25_weight, semantic_weight) ==
    HybridSearched(AfterSelect(c),
                   bm25_search(c.view, text, rank, top_k * 2),
                   semantic_search(c.view, query_embedding, dist, top_k * 2),
                   top_k, bm25_weight, semantic_weight)

----------------------------------------------------------------------------
(* Searching: a store is filled by store_chunks, a query is drawn with the *)
(* scores the two indexes give its rows, and hybrid_search is called twice *)
(* with it.                                                                *)

\* The texts of the chunks stored, in id order.
SearchTexts ==
    << <<"a">>, <<"a", " ", "b">>, <<"b">>, <<"b", " ", "a">>, <<"a", " ", "a">> >>

SearchChunks(k) ==
    [i \in 1..(IF k < Len(SearchTexts) THEN k ELSE Len(SearchTexts)) |->
        MakeChunk(<<SearchTexts[i]>>, "p1")]

\* The store after store_chunks of the first k texts.
SearchStore(k) ==
    store_chunks([view |-> EmptyDB, db |-> EmptyDB], SearchChunks(k),
                 [raises |-> FALSE,
                  dims |-> [i \in 1..Len(SearchChunks(k)) |-> EMBEDDING_DIM]]).c

\* The store after a further store_chunks of one chunk that raised at the
\* vector insert.
OrphanStore ==
    store_chunks(SearchStore(MaxRows - 1),
                 <<MakeChunk(<<SearchTexts[1]>>, "p2")>>,
                 [raises |-> FALSE, dims |-> <<2 * EMBEDDING_DIM>>]).c

SearchStores == {SearchStore(k) : k \in 0..MaxRows} \cup {OrphanStore}

QueryTexts ==
    {<<>>, <<" ">>, <<"a">>, <<"b">>, <<"a", " ", "b">>, <<"z">>,
     <<"p", "1">>, <<"a", "?">>}

\* (bm25_weight, semantic_weight) in tenths: the defaults and an even blend.
Weights == {<<3, 7>>, <<5, 5>>}

\* The scores FTS5 can give the rows matching the text.
Ranks(d, text) ==
    {f \in [1..MaxRows -> 0..MaxScore] :
        \A id \in 1..MaxRows :
            (~FtsSyntaxOk(text) \/ id \notin FtsMatches(d, text)) => f[id] = 0}

\* The distances vec0 can give the stored vectors.
Dists(d, dim) ==
    {f \in [1..MaxRows -> 0..MaxScore] :
        \A id \in 1..MaxRows :
            (dim # EMBEDDING_DIM \/ id \notin VecIds(d)) => f[id] = 0}

InitSearch ==
    /\ \E c \in SearchStores : view = c.view /\ db = c.db
    /\ last = NoCall
    /\ clean = (view = db)
    /\ interrupted = {}
    /\ failedBatch = {}
    /\ clearPartial = {}
    /\ doc = <<>>
    /\ size = DefaultChunkSize
    /\ result = [called |-> FALSE, chunks |-> <<>>]
    /\ \E t \in QueryTexts, dim \in Dims, k \in 1..MaxTopK, w \in Weights :
         \E r \in Ranks(view, t), ds \in Dists(view, dim) :
           query = [text |-> t, embedding |-> [of |-> t, dim |-> dim],
                    top_k |-> k, bm25_weight |-> w[1],
                    semantic_weight |-> w[2], rank |-> r, dist |-> ds]
    /\ hits = NoHits
    /\ context = NoContext
    /\ assigned = [high |-> view.seq, durable |-> db.seq, new |-> {}]
    /\ bot = NoBot
    /\ run = NoRun

\* What a call of hybrid_search left: the exception or the lists.
Outcome(r) ==
    [raised |-> r.raised, bm25_results |-> r.bm25_results,
     semantic_results |-> r.semantic_results, merged |-> r.merged,
     results |-> r.results]

HybridDone(r) ==
    /\ hits' = IF hits.calls = 0
               THEN [calls |-> 1, first |-> Outcome(r), second |-> <<>>]
               ELSE [calls |-> 2, first |-> hits.first, second |-> Outcome(r)]
    /\ view' = r.c.view
    /\ db' = r.c.db
    /\ UNCHANGED <<last, clean, interrupted, failedBatch, clearPartial,
                   assigned, chunkVars, query, context, approvalVars>>

HybridCall ==
    /\ query.top_k >= 1
    /\ hits.calls < 2
    /\ HybridDone(hybrid_search(Conn, query.text, query.embedding, query.rank,
                                query.dist, query.top_k, query.bm25_weight,
                                query.semantic_weight))

NextSearch == HybridCall

SpecSearch == InitSearch /\ [][NextSearch]_vars

----------------------------------------------------------------------------
(* format_context_for_prompt.                                              *)

DigitChars == <<"0", "1", "2", "3", "4", "5", "6", "7", "8", "9">>

\* str(n) for n >= 0.
RECURSIVE Digits(_)
Digits(n) ==
    IF n < 10 THEN <<DigitChars[n + 1]>>
    ELSE Digits(n \div 10) \o <<DigitChars[(n % 10) + 1]>>

\* A score >= 0 in hundredths, an exact half rounded to even.
Hundredths(a) ==
    LET q == (200 * a.num + a.den) \div (2 * a.den)
    IN  IF (200 * a.num + a.den) % (2 * a.den) = 0 /\ q % 2 = 1 THEN q - 1 ELSE q

\* f"{score:.2f}"
Fixed2(a) ==
    Digits(Hundredths(a) \div 100) \o <<".">> \o
    <<DigitChars[((Hundredths(a) \div 10) % 10) + 1],
      DigitChars[(Hundredths(a) % 10) + 1]>>

\* f"[{i}. {result['source_type']}] (score: {result['final_score']:.2f})"
Header(i, r) ==
    <<"[">> \o Digits(i) \o <<".", " ">> \o Chars(r.source_type) \o
    <<"]", " ", "(", "s", "c", "o", "r", "e", ":", " ">> \o
    Fixed2(r.final_score) \o <<")">>

\* "No relevant context found."
Sentinel ==
    <<"N", "o", " ", "r", "e", "l", "e", "v", "a", "n", "t", " ",
      "c", "o", "n", "t", "e", "x", "t", " ", "f", "o", "u", "n", "d", ".">>

\* max_chars - chars_used - len(header) - 10
Available(max_chars, chars_used, header) ==
    max_chars - chars_used - Len(header) - 10

StopsBelow(available) == available < 100

\* if available <= 100: break
Stops(available) == available <= 100

\* content[:available - 3] + "..." when len(content) > available.
Truncated(content, available) ==
    IF Len(content) > available
    THEN SubSeq(content, 1, available - 3) \o <<".", ".", ".">>
    ELSE content

\* f"{header}\n{content}\n"
Entry(header, content) == header \o <<NL>> \o content \o <<NL>>

\* The for loop over enumerate(results, 1), from result i on.
RECURSIVE FormatLoop(_, _, _, _, _)
FormatLoop(results, max_chars, i, context_parts, chars_used) ==
    IF i > Len(results) THEN context_parts
    ELSE IF Stops(Available(max_chars, chars_used, Header(i, results[i])))
    THEN context_parts
    ELSE LET entry == Entry(Header(i, results[i]),
                            Truncated(results[i].content,
                                      Available(max_chars, chars_used,
                                                Header(i, results[i]))))
         IN  FormatLoop(results, max_chars, i + 1,
                        Append(context_parts, entry), chars_used + Len(entry))

\* "\n".join(context_parts)
RECURSIVE JoinLines(_)
JoinLines(parts) ==
    IF parts = <<>> THEN <<>>
    ELSE IF Len(parts) = 1 THEN parts[1]
    ELSE parts[1] \o <<NL>> \o JoinLines(Tail(parts))

format_context_loop_only(results, max_chars) ==
    [text |-> JoinLines(FormatLoop(results, max_chars, 1, <<>>, 0)),
     parts |-> FormatLoop(results, max_chars, 1, <<>>, 0)]

\* The call, with the list of entries it built next to the string returned.
format_context_for_prompt(results, max_chars) ==
    IF results = <<>>
    THEN [text |-> Sentinel, parts |-> <<>>]
    ELSE [text |-> JoinLines(FormatLoop(results, max_chars, 1, <<>>, 0)),
          parts |-> FormatLoop(results, max_chars, 1, <<>>, 0)]

----------------------------------------------------------------------------
(* Formatting alone: a result list and max_chars are drawn, then           *)
(* format_context_for_prompt is called once.                               *)

\* A result as hybrid_search returns it, with a content of n characters.
FormatResult(id, ch, n, score) ==
    [id |-> id, content |-> Repeat(ch, n), source_type |-> "notion",
     source_id |-> "p1", bm25_score |-> Rat(0, 1), semantic_score |-> score,
     final_score |-> Weighted(10, score)]

\* n results with one or two characters of content, then one result with
\* `long` characters when long > 0, then `more` short results.
FormatResults(n, long, more) ==
    [i \in 1..n |-> FormatResult(i, "a", 1 + (i % 2), Rat(i % 3, 2))]
        \o (IF long > 0 THEN <<FormatResult(n + 1, "b", long, Rat(1, 1))>> ELSE <<>>)
        \o [i \in 1..more |-> FormatResult(n + 1 + i, "a", 2, Rat(1, 2))]

LongLens == {0, 101, 150, 300}

MaxCharsChoices == {0, 26, 135, 136, 140, 250, 400, 1200, DefaultMaxChars}

InitFormat ==
    /\ db = EmptyDB
    /\ view = EmptyDB
    /\ last = NoCall
    /\ clean = TRUE
    /\ interrupted = {}
    /\ failedBatch = {}
    /\ clearPartial = {}
    /\ doc = <<>>
    /\ size = DefaultChunkSize
    /\ result = [called |-> FALSE, chunks |-> <<>>]
    /\ query = NoQuery
    /\ hits = NoHits
    /\ assigned = NoneAssigned
    /\ bot = NoBot
    /\ run = NoRun
    /\ \E n \in 0..(MaxResults - 1), long \in LongLens, more \in 0..1,
          m \in MaxCharsChoices :
          context = [called |-> FALSE, results |-> FormatResults(n, long, more),
                     max_chars |-> m, text |-> <<>>, parts |-> <<>>]

FormatDone(r) ==
    /\ context' = [called |-> TRUE, results |-> context.results,
                   max_chars |-> context.max_chars,
                   text |-> r.text, parts |-> r.parts]
    /\ UNCHANGED <<storeVars, chunkVars, query, hits, approvalVars>>

FormatCall ==
    /\ ~context.called
    /\ FormatDone(format_context_for_prompt(context.results, context.max_chars))

NextFormat == FormatCall

SpecFormat == InitFormat /\ [][NextFormat]_vars

----------------------------------------------------------------------------
(* Human approval over Telegram (telegram_hitl.py).  `b` is the module's    *)
(* global state.  The Application is built with its defaults, so updates    *)
(* are processed one after the other: a handler runs to its end before the  *)
(* next update is taken.  `net` is what Telegram does with the handler's    *)
(* own requests: "ok", "answer_fails" (query.answer() raises) or            *)
(* "reply_fails" (the message edit and the fallback reply both raise); an   *)
(* exception leaves the handler where it is raised.                         *)

MaxEvents == 4

ButtonData == {"approve", "reject"}

Texts == {"too long", "off topic"}

ButtonNet == {"ok", "answer_fails", "reply_fails"}

TextNet == {"ok", "reply_fails"}

\* (feedback_decision, feedback_reason)
Pair(b) == <<b.feedback_decision, b.feedback_reason>>

\* feedback_done.set(); at_done remembers the pair the first set() saw.
SetDone(b) ==
    [b EXCEPT !.feedback_done = TRUE,
              !.at_done = IF b.feedback_done THEN @ ELSE Pair(b)]

handle_button_reject_completes(b, data, net) ==
    IF net = "answer_fails" THEN b
    ELSE IF net = "reply_fails"
    THEN [b EXCEPT !.feedback_decision = data]
    ELSE SetDone([b EXCEPT !.feedback_decision = data])

\* async def handle_button(update, context)
handle_button(b, data, net) ==
    IF net = "answer_fails" THEN b
    ELSE IF data = "approve"
    THEN IF net = "reply_fails"
         THEN [b EXCEPT !.feedback_decision = "approve"]
         ELSE SetDone([b EXCEPT !.feedback_decision = "approve"])
    ELSE IF data = "reject"
    THEN [b EXCEPT !.feedback_decision = "reject"]
    ELSE b

handle_text_unguarded(b, text, net) ==
    IF net = "reply_fails"
    THEN [b EXCEPT !.feedback_reason = text]
    ELSE SetDone([b EXCEPT !.feedback_reason = text])

\* async def handle_text(update, context)
handle_text(b, text, net) ==
    IF b.feedback_decision = "reject" /\ ~b.feedback_done
    THEN IF net = "reply_fails"
         THEN [b EXCEPT !.feedback_reason = text]
         ELSE SetDone([b EXCEPT !.feedback_reason = text])
    ELSE b

\* os.path.exists(image_path), for the image main() passes on: "none" is
\* image_path None, "file" a file that is there, "missing" one that is not.
Images == {"none", "file", "missing"}

PathExists(image) == image = "file"

\* send_for_approval up to `await feedback_done.wait()`: the globals are
\* reset, the message is sent (`sent` is whether Telegram accepts it) and
\* polling starts.
send_for_approval_start(b, image, sent) ==
    [polling |-> sent, feedback_decision |-> "None",
     feedback_reason |-> "None", feedback_done |-> FALSE,
     has_image |-> image # "none" /\ PathExists(image),
     handled |-> 0, update |-> <<>>, at_done |-> <<>>, returned |-> <<>>]

\* send_for_approval from the end of the wait: the application is stopped
\* and the globals are returned as they are then.
send_for_approval_return(b) ==
    [b EXCEPT !.polling = FALSE, !.returned = Pair(b)]

----------------------------------------------------------------------------
(* post_to_mastodon (mastodon_posting.py).  A post is the length of its     *)
(* caption and hashtags; `api` is what the Mastodon side does: "ok",        *)
(* "no_credentials", "media_error" (media_post raises MastodonError) or     *)
(* "status_error" (status_post raises).  The result counts the clients      *)
(* created and the API calls made.                                          *)

MAX_STATUS_LENGTH == 500

Apis == {"ok", "no_credentials", "media_error", "status_error"}

\* len(content[:n])
SliceLen(length, n) == IF length < n THEN length ELSE n

\* content = f"{post.caption}\n\n{post.hashtags}", cut to MAX_STATUS_LENGTH
ContentLength(length) ==
    IF length > MAX_STATUS_LENGTH
    THEN SliceLen(length, MAX_STATUS_LENGTH - 3) + 3
    ELSE length

\* The image that is left after "Validate image path if provided".
ValidImage(image) == image # "none" /\ PathExists(image)

Posted(dry_run, clients, medias, statuses, raised, success, length, image) ==
    [dry_run |-> dry_run, clients |-> clients, media_posts |-> medias,
     status_posts |-> statuses, raised |-> raised,
     result |-> [success |-> success, dry_run |-> dry_run,
                 content_length |-> length, has_image |-> image]]

\* The "Actual posting" branch.
ActualPosting(length, image, api) ==
    IF api = "no_credentials"
    THEN Posted(FALSE, 0, 0, 0, TRUE, FALSE, 0, FALSE)
    ELSE LET tried == IF ValidImage(image) THEN 1 ELSE 0
             media == ValidImage(image) /\ api # "media_error"
         IN  IF api = "status_error"
             THEN Posted(FALSE, 1, tried, 1, TRUE, FALSE, 0, FALSE)
             ELSE Posted(FALSE, 1, tried, 1, FALSE, TRUE,
                         ContentLength(length), media)

\* The "Dry run mode" branch.
DryRun(length, image) ==
    Posted(TRUE, 0, 0, 0, FALSE, TRUE, ContentLength(length),
           ValidImage(image))

post_to_mastodon_ignores_dry_run(length, image, dry_run, api) ==
    [ActualPosting(length, image, api) EXCEPT !.dry_run = dry_run]

post_to_mastodon(length, image, dry_run, api) ==
    IF dry_run THEN DryRun(length, image)
    ELSE ActualPosting(length, image, api)

----------------------------------------------------------------------------
(* The pipeline: main() of main.py, and the script tests/test_mastodon.py   *)
(* that calls post_to_mastodon directly.  run.calls is the calls of         *)
(* post_to_mastodon made so far.                                            *)

\* len(caption) + 2 + len(hashtags): a short post and one over the limit.
ContentLens == {2, MAX_STATUS_LENGTH + 1}

RejectedNever(decision) == FALSE

\* if decision == "reject":
Rejected(decision) == decision = "reject"

InitApproval ==
    /\ db = EmptyDB
    /\ view = EmptyDB
    /\ last = NoCall
    /\ clean = TRUE
    /\ interrupted = {}
    /\ failedBatch = {}
    /\ clearPartial = {}
    /\ doc = <<>>
    /\ size = DefaultChunkSize
    /\ result = [called |-> FALSE, chunks |-> <<>>]
    /\ query = NoQuery
    /\ hits = NoHits
    /\ context = NoContext
    /\ assigned = NoneAssigned
    /\ bot = NoBot
    /\ run = NoRun

Frame == UNCHANGED <<storeVars, chunkVars, searchVars>>

\* main() up to the call of request_approval: the post is generated and,
\* with an image prompt, its image; any of these steps may raise.
MainStart ==
    /\ run.pc = "idle"
    /\ \E ok \in BOOLEAN, dry_run \in BOOLEAN, length \in ContentLens,
          image \in Images :
          run' = [run EXCEPT !.pc = IF ok THEN "generated" ELSE "raised",
                             !.entry = "main", !.dry_run = dry_run,
                             !.length = length, !.image = image]
    /\ UNCHANGED bot
    /\ Frame

\* request_approval(post_idea, image_path) up to the wait.
SendForApproval ==
    /\ run.pc = "generated"
    /\ \E sent \in BOOLEAN :
          /\ bot' = send_for_approval_start(bot, run.image, sent)
          /\ run' = [run EXCEPT !.pc = IF sent THEN "waiting" ELSE "raised"]
    /\ Frame

\* What the bot is after it has handled one more update.
Handled(b, kind, data) ==
    [b EXCEPT !.handled = @ + 1, !.update = <<kind, data>>]

\* A callback query reaches CallbackQueryHandler(handle_button).
HandleButton ==
    /\ bot.polling
    /\ bot.handled < MaxEvents
    /\ \E data \in ButtonData, net \in ButtonNet :
          bot' = Handled(handle_button(bot, data, net), "button", data)
    /\ UNCHANGED run
    /\ Frame

\* A text message reaches MessageHandler(filters.TEXT & ~filters.COMMAND).
HandleText ==
    /\ bot.polling
    /\ bot.handled < MaxEvents
    /\ \E text \in Texts, net \in TextNet :
          bot' = Handled(handle_text(bot, text, net), "text", text)
    /\ UNCHANGED run
    /\ Frame

\* The wait ends, the application is stopped, and main() has
\* decision, feedback = request_approval(...).
ApprovalReturns ==
    /\ run.pc = "waiting"
    /\ bot.polling
    /\ bot.feedback_done
    /\ bot' = send_for_approval_return(bot)
    /\ run' = [run EXCEPT !.pc = "decided",
                          !.decision = bot.feedback_decision,
                          !.feedback = bot.feedback_reason]
    /\ Frame

\* main(): the rejected branch returns without posting.
MainRejected ==
    /\ run.pc = "decided"
    /\ Rejected(run.decision)
    /\ run' = [run EXCEPT !.pc = "rejected"]
    /\ UNCHANGED bot
    /\ Frame

\* The pipeline after a call of post_to_mastodon that ended as `call`.
PostDone(call, next) ==
    /\ run' = [run EXCEPT !.pc = IF call.raised THEN "raised" ELSE next,
                          !.calls = Append(@, call)]
    /\ UNCHANGED bot
    /\ Frame

\* main(): post_to_mastodon(post_idea, image_path=image_path, dry_run=dry_run)
MainPosts ==
    /\ run.pc = "decided"
    /\ ~Rejected(run.decision)
    /\ \E api \in Apis :
          PostDone(post_to_mastodon(run.length, run.image, run.dry_run, api),
                   "complete")

\* tests/test_mastodon.py: a post is generated.
TestStart ==
    /\ run.pc = "idle"
    /\ \E length \in ContentLens :
          run' = [run EXCEPT !.pc = "test_dry", !.entry = "test_mastodon",
                             !.length = length]
    /\ UNCHANGED bot
    /\ Frame

\* tests/test_mastodon.py: post_to_mastodon(post_idea, dry_run=True)
TestDryRun ==
    /\ run.pc = "test_dry"
    /\ \E api \in Apis :
          PostDone(post_to_mastodon(run.length, "none", TRUE, api),
                   "test_real")

\* tests/test_mastodon.py: post_to_mastodon(post_idea, dry_run=False)
TestReal ==
    /\ run.pc = "test_real"
    /\ \E api \in Apis :
          PostDone(post_to_mastodon(run.length, "none", FALSE, api),
                   "complete")

NextApproval ==
    \/ MainStart
    \/ SendForApproval
    \/ HandleButton
    \/ HandleText
    \/ ApprovalReturns
    \/ MainRejected
    \/ MainPosts
    \/ TestStart
    \/ TestDryRun
    \/ TestReal

SpecApproval == InitApproval /\ [][NextApproval]_vars

----------------------------------------------------------------------------
(* Properties of the store (under Spec).                                   *)

RECURSIVE BagCount(_, _)
BagCount(B, S) ==
    IF S = {} THEN 0
    ELSE LET e == CHOOSE x \in S : TRUE
         IN  CopiesIn(e, B) + BagCount(B, S \ {e})

\* Number of full-text entries / vector entries kept for an id.
FtsCount(d, id) == BagCount(d.fts, {e \in BagToSet(d.fts) : e.rowid = id})

VecCount(d, id) == Cardinality({v \in d.vec : v.rowid = id})

Consistent(d) ==
    /\ MetaIds(d) = VecIds(d)
    /\ MetaIds(d) = FtsIds(d)
    /\ \A id \in MetaIds(d) : VecCount(d, id) = 1 /\ FtsCount(d, id) = 1

\* Traces of a source in a database: its metadata rows, its full-text
\* entries, and vector or full-text entries under the given ids.
NoTrace(d, source_id, ids) ==
    /\ {r \in d.meta : r.source_id = source_id} = {}
    /\ {e \in BagToSet(d.fts) : e.source_id = source_id} = {}
    /\ ids \cap VecIds(d) = {}
    /\ ids \cap FtsIds(d) = {}
    /\ ids \cap MetaIds(d) = {}

\* The chunks of a source as stored, in id order.
StoredChunks(d, source_id) ==
    LET ids == SortedSeq(SourceIds(d, source_id))
    IN  [i \in 1..Len(ids) |->
            LET r == CHOOSE x \in d.meta : x.id = ids[i]
            IN  [content |-> r.content, source_type |-> r.source_type,
                 source_id |-> r.source_id, metadata |-> r.metadata]]

\* C1: as long as every store_chunks and clear_source call has succeeded,
\* the ids of the metadata table, of the vector index and of the full-text
\* index are the same set, and every id has exactly one vector entry and
\* exactly one full-text entry (in the connection's view and durably).
C1_DualIndexConsistency == clean => (Consistent(view) /\ Consistent(db))

C1_Witness ==
    /\ clean
    /\ last.op = "clear_source" /\ last.cleared # {}
    /\ db.meta # {}

\* C2: after clear_source(s) returns, the metadata table has no row of s and
\* neither index holds an id that belonged to s before the call.
C2_ClearSourceLeavesNoTrace ==
    (last.op = "clear_source" /\ last.outcome = "ok") =>
        (/\ NoTrace(view, last.src, last.cleared)
         /\ NoTrace(db, last.src, last.cleared))

C2_Witness ==
    /\ last.op = "clear_source" /\ last.outcome = "ok"
    /\ Cardinality(last.cleared) >= 1
    /\ view.meta # {}

\* C3: after a successful sync of s the chunks stored under s are exactly
\* the chunks of the fetched text, none of the chunks s had before is left,
\* and the returned integer is the number of chunks stored for s.
C3_SyncStoresExactlyFreshChunks ==
    (last.op = "sync" /\ last.outcome = "ok") =>
        LET fresh == chunk_document(last.doc, last.src, DefaultChunkSize)
        IN  /\ StoredChunks(view, last.src) = fresh
            /\ StoredChunks(db, last.src) = fresh
            /\ last.ret = Len(StoredChunks(db, last.src))
            /\ last.cleared \cap MetaIds(view) = {}
            /\ last.cleared \cap MetaIds(db) = {}
            /\ \A id \in SourceIds(db, last.src) :
                  VecCount(db, id) = 1 /\ FtsCount(db, id) = 1

C3_Witness ==
    /\ last.op = "sync" /\ last.outcome = "ok"
    /\ last.cleared # {}
    /\ last.ret >= 1

\* C4: a successful sync that repeats the successful sync before it (same
\* page, same fetched text) returns the same count and leaves the same
\* sequence of contents, with as many rows as the count.
C4_ResyncIdempotent ==
    (last.op = "sync" /\ last.outcome = "ok" /\ last.again) =>
        /\ last.ret = last.prevRet
        /\ Stored(view, last.src) = last.prevStored
        /\ Stored(db, last.src) = last.prevStored
        /\ Len(Stored(db, last.src)) = last.ret

C4_Witness ==
    /\ last.op = "sync" /\ last.outcome = "ok" /\ last.again
    /\ last.ret >= 1
    /\ Len(Stored(db, last.src)) = last.ret

SyncOrder == <<"fetch", "clear", "chunk", "store">>

IsPrefix(s, u) == Len(s) <= Len(u) /\ s = SubSeq(u, 1, Len(s))

\* C5: a sync runs fetch, clear_source, chunking, store_chunks in this order
\* and stops at the step that raises; when the fetch fails clear_source is
\* not run and the store, with the chunks the page had, is unchanged; when
\* clear_source raises nothing is inserted.
C5_SyncAbortsOnFailure ==
    [][last'.op = "sync" =>
         /\ IsPrefix(last'.steps, SyncOrder)
         /\ last'.outcome = "fetch_failed" =>
               (last'.steps = <<"fetch">> /\ UNCHANGED <<view, db>>)
         /\ last'.outcome = "clear_failed" =>
               (/\ last'.steps = <<"fetch", "clear">>
                /\ view'.seq = view.seq
                /\ MetaIds(view') \subseteq MetaIds(view)
                /\ db' = db)
         /\ last'.outcome \in {"ok", "store_failed"} => last'.steps = SyncOrder
    ]_vars

C5_Witness ==
    /\ last.op = "sync" /\ last.outcome = "fetch_failed"
    /\ SourceIds(view, last.src) # {}
    /\ SourceIds(db, last.src) # {}

\* C6: a page whose sync raised in store_chunks, after clear_source had
\* run, has no chunk in any committed state until its sync is run again.
C6_InterruptedSyncLeavesSourceEmpty ==
    \A s \in interrupted : NoTrace(db, s, SourceIds(view, s))

\* C7: no row inserted by a store_chunks call that raised is ever durable.
C7_FailedBatchNeverDurable ==
    /\ failedBatch \cap MetaIds(db) = {}
    /\ failedBatch \cap FtsIds(db) = {}
    /\ failedBatch \cap VecIds(db) = {}

\* C8: an id whose clear_source raised between the two deletes is, in every
\* committed state, in the metadata table exactly if it is in the vector
\* index.
C8_ClearSourceOneUnit ==
    \A id \in clearPartial : (id \in MetaIds(db)) <=> (id \in VecIds(db))

----------------------------------------------------------------------------
(* Properties of the chunker (under SpecChunk).                            *)

SumLen(paras) == SumSeq([j \in 1..Len(paras) |-> Len(paras[j])])

\* The paragraphs held by every produced chunk.
Groups == [i \in 1..Len(result.chunks) |-> paragraphs(result.chunks[i].content)]

\* C9: every chunk's content is at most `size` long, except a chunk made of
\* one paragraph that is itself longer than `size`.
C9_ChunkSizeBound ==
    result.called =>
        \A i \in 1..Len(result.chunks) :
            \/ Len(result.chunks[i].content) <= size
            \/ /\ Len(Groups[i]) = 1
               /\ Len(Groups[i][1]) > size
               /\ Len(result.chunks[i].content) = Len(Groups[i][1])

\* C10: chunk boundaries are greedy.  The chunks hold the paragraphs in
\* order; a chunk ends exactly where the next paragraph would take the
\* summed paragraph lengths of the buffer past `size`; the rest is flushed
\* at the end.  Paragraphs of 500 and 400 characters at size 800 give two
\* chunks, one per paragraph.
C10_GreedyBoundaries ==
    result.called =>
        /\ Flatten(Groups) = paragraphs(doc)
        /\ \A i \in 1..Len(Groups) :
              /\ Groups[i] # <<>>
              /\ result.chunks[i].content = join(Groups[i])
              /\ \A k \in 1..(Len(Groups[i]) - 1) :
                    SumLen(SubSeq(Groups[i], 1, k)) + Len(Groups[i][k + 1]) <= size
        /\ \A i \in 1..(Len(Groups) - 1) :
              SumLen(Groups[i]) + Len(Groups[i + 1][1]) > size
        /\ (doc = ScenarioDoc /\ size = DefaultChunkSize) =>
              Contents(result.chunks) = <<Repeat("a", 500), Repeat("b", 400)>>

C10_Witness ==
    /\ result.called
    /\ doc = ScenarioDoc /\ size = DefaultChunkSize
    /\ Len(result.chunks) = 2

Oversized(para) == Len(para) > size

OversizedAlone(content) ==
    Len(paragraphs(content)) = 1 /\ Oversized(paragraphs(content)[1])

\* C11: a paragraph longer than `size` is never split and shares its chunk
\* with no other paragraph: the chunks that are one oversized paragraph
\* are, in order, the oversized paragraphs of the document, and no other
\* chunk holds an oversized paragraph.  A document without text gives no
\* chunk.
C11_OversizedParagraphAlone ==
    result.called =>
        /\ SelectSeq(Contents(result.chunks), OversizedAlone)
             = SelectSeq(paragraphs(doc), Oversized)
        /\ \A i \in 1..Len(Groups) :
              (\E k \in 1..Len(Groups[i]) : Oversized(Groups[i][k])) =>
                  /\ Len(Groups[i]) = 1
                  /\ result.chunks[i].content = Groups[i][1]
        /\ doc = <<>> => result.chunks = <<>>
        /\ paragraphs(doc) = <<>> => result.chunks = <<>>

\* An oversized paragraph between two others, and the empty document.
C11_Witness ==
    /\ result.called
    /\ Len(paragraphs(doc)) = 3
    /\ Oversized(paragraphs(doc)[2])
    /\ ~Oversized(paragraphs(doc)[1]) /\ ~Oversized(paragraphs(doc)[3])
    /\ Len(result.chunks) = 3
    /\ result.chunks[2].content = paragraphs(doc)[2]

----------------------------------------------------------------------------
(* Properties of hybrid_search (under SpecSearch).                         *)

\* The first call returned its lists.
Searched == hits.calls >= 1 /\ hits.first.raised = ""

Ids(rows) == [i \in 1..Len(rows) |-> rows[i].id]

\* Position of the entry of an id in the merge order.
MergePos(id) == SetMin({j \in 1..Len(hits.first.merged) : hits.first.merged[j].id = id})

IsZero(a) == a.den # 0 /\ a.num = 0

\* final_score = bm25_weight * bm25_score + semantic_weight * semantic_score,
\* with the weights in tenths.
FinalIsBlend(m) ==
    /\ m.final_score.den # 0 /\ m.bm25_score.den # 0 /\ m.semantic_score.den # 0
    /\ m.final_score.num * 10 * m.bm25_score.den * m.semantic_score.den
         = m.final_score.den *
             (query.bm25_weight * m.bm25_score.num * m.semantic_score.den
              + query.semantic_weight * m.semantic_score.num * m.bm25_score.den)

\* x is ranked before y: higher final score, or the same and merged earlier.
RankedBefore(x, y) ==
    \/ RatLess(y.final_score, x.final_score)
    \/ /\ RatEq(x.final_score, y.final_score)
       /\ MergePos(x.id) < MergePos(y.id)

\* C12: the candidates are merged lexical results first, then the results
\* found only by the vector search, each in its rank order; every final
\* score is the weighted sum; the list returned holds the candidates in
\* non-increasing final score, equal scores in merge order, cut after
\* top_k entries, so its length is min(top_k, number of candidate ids).
C12_RankedByFinalScore ==
    Searched =>
        LET out == hits.first.results
            merged == hits.first.merged
            lexical == Ids(hits.first.bm25_results)
            semantic == Ids(hits.first.semantic_results)
            candidates == Range(lexical) \cup Range(semantic)
        IN  /\ Ids(merged)
                 = lexical \o SelectSeq(semantic, LAMBDA id : id \notin Range(lexical))
            /\ \A j \in 1..Len(merged) : FinalIsBlend(merged[j])
            /\ Range(out) \subseteq Range(merged)
            /\ \A i \in 1..Len(out), j \in 1..Len(out) :
                  i < j => RankedBefore(out[i], out[j])
            /\ \A m \in Range(merged) \ Range(out) :
                  \A i \in 1..Len(out) : RankedBefore(out[i], m)
            /\ Len(out) = IF query.top_k < Cardinality(candidates)
                          THEN query.top_k ELSE Cardinality(candidates)

\* Two results with the same final score, one found by the semantic search
\* only, and a candidate that top_k cut off.
C12_Witness ==
    /\ Searched
    /\ Len(hits.first.results) = 2
    /\ Len(hits.first.merged) > 2
    /\ RatEq(hits.first.results[1].final_score, hits.first.results[2].final_score)
    /\ hits.first.results[1].final_score.num > 0
    /\ hits.first.results[2].id \notin Range(Ids(hits.first.bm25_results))
    /\ hits.first.results[2].id < hits.first.results[1].id

\* C13: every id occurs once in the list returned; an entry found by the
\* lexical search only has semantic score 0, an entry found by the vector
\* search only has BM25 score 0, and every entry carries the normalized
\* score of each search that found it.
C13_MergedById ==
    Searched =>
        /\ \A i \in 1..Len(hits.first.results), j \in 1..Len(hits.first.results) :
              hits.first.results[i].id = hits.first.results[j].id => i = j
        /\ \A m \in Range(hits.first.results) \cup Range(hits.first.merged) :
              /\ \A r \in Range(hits.first.bm25_results) :
                    r.id = m.id => m.bm25_score = r.bm25_normalized
              /\ \A r \in Range(hits.first.semantic_results) :
                    r.id = m.id => m.semantic_score = r.semantic_normalized
              /\ m.id \notin Range(Ids(hits.first.bm25_results)) => IsZero(m.bm25_score)
              /\ m.id \notin Range(Ids(hits.first.semantic_results)) => IsZero(m.semantic_score)

\* The entry returned was found by both searches and has two non-zero
\* scores; one candidate was found by the lexical search only and one by
\* the vector search only.
C13_Witness ==
    /\ Searched
    /\ \E m \in Range(hits.first.results) :
          /\ m.id \in Range(Ids(hits.first.bm25_results))
          /\ m.id \in Range(Ids(hits.first.semantic_results))
          /\ m.bm25_score.num > 0 /\ m.semantic_score.num > 0
    /\ \E m \in Range(hits.first.merged) :
          /\ m.id \in Range(Ids(hits.first.bm25_results))
          /\ m.id \notin Range(Ids(hits.first.semantic_results))
    /\ \E m \in Range(hits.first.merged) :
          /\ m.id \notin Range(Ids(hits.first.bm25_results))
          /\ m.semantic_score.num > 0

Bm25Scores == {r.bm25_score : r \in Range(hits.first.bm25_results)}

Distances == {r.distance : r \in Range(hits.first.semantic_results)}

\* C14: no normalized score is a division by zero, and when all lexical
\* results have the same BM25 score (a single result included) the divisor
\* is 1 and every normalized BM25 score is 0.
C14_MinMaxStable ==
    Searched =>
        /\ \A r \in Range(hits.first.bm25_results) : r.bm25_normalized.den # 0
        /\ \A r \in Range(hits.first.semantic_results) : r.semantic_normalized.den # 0
        /\ Cardinality(Bm25Scores) = 1 =>
              \A r \in Range(hits.first.bm25_results) :
                  r.bm25_normalized.den = 1 /\ r.bm25_normalized.num = 0

\* Several lexical results that all have the same score, not 0.
C14_Witness ==
    /\ Searched
    /\ Len(hits.first.bm25_results) >= 2
    /\ Cardinality(Bm25Scores) = 1
    /\ 0 \notin Bm25Scores
    /\ \A m \in Range(hits.first.results) : IsZero(m.bm25_score)

InUnit(a) == a.den > 0 /\ 0 <= a.num /\ a.num <= a.den

IsOne(a) == a.den # 0 /\ a.num = a.den

\* C15: every normalized score lies in [0,1].  When the BM25 scores are not
\* all equal the highest is normalized to 1 and the lowest to 0; when the
\* distances are not all equal the smallest gets semantic score 1 and the
\* largest 0; a smaller distance never gets a smaller semantic score, nor a
\* higher BM25 score a smaller normalized one.
C15_NormalizedIntoUnit ==
    Searched =>
        /\ \A r \in Range(hits.first.bm25_results) :
              /\ InUnit(r.bm25_normalized)
              /\ Cardinality(Bm25Scores) > 1 =>
                    /\ r.bm25_score = SetMax(Bm25Scores) => IsOne(r.bm25_normalized)
                    /\ r.bm25_score = SetMin(Bm25Scores) => IsZero(r.bm25_normalized)
        /\ \A r \in Range(hits.first.semantic_results) :
              /\ InUnit(r.semantic_normalized)
              /\ Cardinality(Distances) > 1 =>
                    /\ r.distance = SetMin(Distances) => IsOne(r.semantic_normalized)
                    /\ r.distance = SetMax(Distances) => IsZero(r.semantic_normalized)
        /\ \A r1, r2 \in Range(hits.first.semantic_results) :
              r1.distance < r2.distance =>
                  ~RatLess(r1.semantic_normalized, r2.semantic_normalized)
        /\ \A r1, r2 \in Range(hits.first.bm25_results) :
              r1.bm25_score > r2.bm25_score =>
                  ~RatLess(r1.bm25_normalized, r2.bm25_normalized)

\* Three distances and three BM25 scores, all different.
C15_Witness ==
    /\ Searched
    /\ Cardinality(Distances) = 3
    /\ Cardinality(Bm25Scores) = 3
    /\ \E r \in Range(hits.first.semantic_results) :
          r.semantic_normalized.num * 2 = r.semantic_normalized.den

C17_NoResultsIsNoError ==
    (/\ hits.calls >= 1
     /\ \/ query.text = <<>>
        \/ FtsSyntaxOk(query.text) /\ FtsMatches(view, query.text) = {})
        => /\ hits.first.raised # "bm25_search"
           /\ hits.first.bm25_results = <<>>

\* C18: after a store_chunks call that raised because the provider returned
\* a vector whose dimension is not EMBEDDING_DIM, no chunk of its batch is in
\* the store, neither in the connection's view nor durably.
C18_WrongDimensionStoresNothing ==
    (last.op = "store_chunks" /\ last.outcome = "raised") =>
        /\ failedBatch \cap (MetaIds(view) \cup FtsIds(view) \cup VecIds(view)) = {}
        /\ failedBatch \cap (MetaIds(db) \cup FtsIds(db) \cup VecIds(db)) = {}

----------------------------------------------------------------------------
(* Properties of format_context_for_prompt (under SpecFormat).             *)

\* C19: when the call emitted an entry, the string returned is at most
\* max_chars plus the length of the header of the last emitted entry long.
C19_ContextBudgetRespected ==
    (context.called /\ context.parts # <<>>) =>
        Len(context.text)
            <= context.max_chars
                 + Len(Header(Len(context.parts), context.results[Len(context.parts)]))

\* chars_used before result i, and the budget left for its content.
UsedBefore(i) == SumSeq([j \in 1..(i - 1) |-> Len(context.parts[j])])

Remaining(i) ==
    context.max_chars - UsedBefore(i) - Len(Header(i, context.results[i])) - 10

\* C20: the entries emitted are those of the first results, in rank order;
\* each was emitted with a remaining budget above 100, its content cut to
\* remaining-3 characters and "..." when longer than the remaining budget;
\* the first result not emitted had a remaining budget of at most 100; the
\* string returned is the entries joined by newlines.
C20_EmitsPrefixWithinBudget ==
    (context.called /\ context.results # <<>>) =>
        /\ Len(context.parts) <= Len(context.results)
        /\ \A i \in 1..Len(context.parts) :
              /\ Remaining(i) > 100
              /\ context.parts[i] =
                    Header(i, context.results[i]) \o <<NL>> \o
                    (IF Len(context.results[i].content) > Remaining(i)
                     THEN SubSeq(context.results[i].content, 1, Remaining(i) - 3)
                              \o <<".", ".", ".">>
                     ELSE context.results[i].content) \o <<NL>>
        /\ Len(context.parts) < Len(context.results) =>
              Remaining(Len(context.parts) + 1) <= 100
        /\ context.text = JoinLines(context.parts)

\* Two entries emitted, the second cut to its budget, and a result after
\* them left out.
C20_Witness ==
    /\ context.called
    /\ Len(context.parts) = 2
    /\ Len(context.results) = 3
    /\ Len(context.results[2].content) > Remaining(2)
    /\ Len(context.parts[2]) < Len(context.results[2].content)

\* C21: called with an empty result list, format_context_for_prompt returns
\* the string "No relevant context found." whatever max_chars is, and not
\* the empty string.
C21_EmptyResultsGiveSentinel ==
    (context.called /\ context.results = <<>>) =>
        /\ context.text # <<>>
        /\ context.text =
              <<"N", "o", " ", "r", "e", "l", "e", "v", "a", "n", "t", " ",
                "c", "o", "n", "t", "e", "x", "t", " ",
                "f", "o", "u", "n", "d", ".">>

\* The call with an empty list and a max_chars smaller than the sentinel.
C21_Witness ==
    /\ context.called
    /\ context.results = <<>>
    /\ context.max_chars < Len(context.text)

----------------------------------------------------------------------------
(* Further properties of the store (under Spec) and of the chunker (under  *)
(* SpecChunk).                                                             *)

\* C22: clear_source for a source without stored chunks does not raise and
\* leaves the metadata table, the vector index and the full-text index as
\* they were, in the connection's view and in the committed database.
C22_ClearSourceOfNothingIsNoOp ==
    [][(last'.op = "clear_source" /\ SourceIds(view, last'.src) = {}) =>
          /\ last'.outcome = "ok"
          /\ last'.cleared = {}
          /\ view' = view
          /\ db' = db
    ]_vars

\* Such a call on a store that holds chunks of the other source and a
\* pending row.
C22_Witness ==
    /\ last.op = "clear_source" /\ last.outcome = "ok"
    /\ last.cleared = {}
    /\ SourceIds(view, last.src) = {}
    /\ view.meta # {}
    /\ view # db

\* The rows, vector entries and full-text entries of the sources other
\* than s.
Outside(d, s) ==
    LET rows == {r \in d.meta : r.source_id # s}
    IN  [meta |-> rows,
         vec  |-> {v \in d.vec : v.rowid \in {r.id : r \in rows}},
         fts  |-> {<<e, CopiesIn(e, d.fts)>> :
                     e \in {x \in BagToSet(d.fts) : x.source_id # s}}]

\* C28: a clear_source(s) call, however it ends, leaves every chunk of
\* another source with its id, content and metadata, its vector entry and
\* its full-text entry, as the connection sees the store.
C28_ClearSourceFrame ==
    [][last'.op = "clear_source" => Outside(view', last'.src) = Outside(view, last'.src)]_vars

\* A clear_source that deleted chunks while the other source has a chunk
\* with its vector and full-text entry.
C28_Witness ==
    /\ last.op = "clear_source" /\ last.outcome = "ok"
    /\ last.cleared # {}
    /\ Outside(view, last.src).meta # {}
    /\ Outside(view, last.src).vec # {}
    /\ Outside(db, last.src).fts # {}

\* C30: the chunks hold every non-empty paragraph of the document once,
\* whole and in order: their contents joined by blank lines are the stripped
\* non-empty paragraphs joined by blank lines; no chunk is empty and
\* char_count is the length of the content.
C30_ChunkerLosesNothing ==
    result.called =>
        /\ join(Contents(result.chunks)) = join(paragraphs(doc))
        /\ Flatten([i \in 1..Len(result.chunks) |->
                       paragraphs(result.chunks[i].content)]) = paragraphs(doc)
        /\ \A i \in 1..Len(result.chunks) :
              /\ result.chunks[i].content # <<>>
              /\ result.chunks[i].metadata.char_count = Len(result.chunks[i].content)

\* Three paragraphs in two chunks, the first chunk holding two of them.
C30_Witness ==
    /\ result.called
    /\ Len(paragraphs(doc)) = 3
    /\ Len(result.chunks) = 2
    /\ Len(paragraphs(result.chunks[1].content)) = 2

----------------------------------------------------------------------------
\* C29: chunk ids are never reused.  In every step of the store, each id
\* an INSERT assigns is strictly greater than every id this database has
\* handed out before (the ids of chunks deleted since included); a crash
\* rolls back the uncommitted ids together with their rows, so after it
\* "before" means the ids that were made durable.  Hence a row of the
\* vector index always holds the embedding of the chunk whose id it has,
\* in the connection's view and in the committed database, and no two
\* chunks share an id.
PairedAsInserted(d) ==
    /\ \A v \in d.vec : \A r \in d.meta :
            r.id = v.rowid => v.embedding.of = r.content
    /\ \A r1 \in d.meta : \A r2 \in d.meta : r1.id = r2.id => r1 = r2

C29_IdsNeverReused ==
    [][/\ \A id \in assigned'.new : id > assigned.high
       /\ PairedAsInserted(view')
       /\ PairedAsInserted(db')]_vars

\* An id is assigned, with its vector, after a smaller id was deleted.
C29_IdsNeverReused_Witness ==
    /\ \E id \in assigned.new :
           /\ id \in VecIds(view)
           /\ \E gone \in 1..(id - 1) : gone \notin MetaIds(view) \cup VecIds(view)
    /\ last.op = "store_chunks"
    /\ last.outcome = "ok"
    /\ db = view

----------------------------------------------------------------------------
(* Properties of the approval and of the posting (under SpecApproval).     *)

\* C23: send_for_approval returns a decision that is "approve" or "reject",
\* never None, and a returned "approve" carries the reason None, whatever
\* button presses and text messages were handled while the bot was polling.
C23_ApproveCarriesNoReason ==
    bot.returned # <<>> =>
        /\ bot.returned[1] \in {"approve", "reject"}
        /\ (bot.returned[1] = "approve" => bot.returned[2] = "None")

\* C24: a call of post_to_mastodon with dry_run=True creates no Mastodon
\* client, calls neither media_post nor status_post, does not raise, and
\* returns success True and dry_run True.
C24_DryRunPostsNothing ==
    \A i \in 1..Len(run.calls) :
        run.calls[i].dry_run =>
            /\ run.calls[i].clients = 0
            /\ run.calls[i].media_posts = 0
            /\ run.calls[i].status_posts = 0
            /\ ~run.calls[i].raised
            /\ run.calls[i].result.success
            /\ run.calls[i].result.dry_run

\* main() made a dry run for an approved post that has an image file.
C24_DryRunPostsNothing_Witness ==
    /\ run.entry = "main"
    /\ run.image = "file"
    /\ run.pc = "complete"
    /\ Len(run.calls) = 1
    /\ run.calls[1].dry_run
    /\ run.calls[1].result.has_image

\* C25: in every step that handles an update, feedback_done becomes set
\* only by an Approve press or by a text message that finds the decision
\* "reject"; a Reject press leaves feedback_done as it is; a text message
\* that does not find the decision "reject" leaves the reason and
\* feedback_done as they are.  The wait ends only with feedback_done set.
C25_WaitCompletion ==
    [][/\ (bot.polling /\ bot'.handled = bot.handled + 1) =>
            /\ (bot'.feedback_done /\ ~bot.feedback_done) =>
                   \/ bot'.update = <<"button", "approve">>
                   \/ bot'.update[1] = "text" /\ bot.feedback_decision = "reject"
            /\ bot'.update = <<"button", "reject">> =>
                   bot'.feedback_done = bot.feedback_done
            /\ (bot'.update[1] = "text" /\ bot.feedback_decision # "reject") =>
                   /\ bot'.feedback_reason = bot.feedback_reason
                   /\ bot'.feedback_done = bot.feedback_done
       /\ (run.pc = "waiting" /\ run'.pc # "waiting") => bot.feedback_done]_vars

\* A Reject press and then a text message: the text set feedback_done.
C25_WaitCompletion_Witness ==
    /\ bot.polling
    /\ bot.handled = 2
    /\ bot.update[1] = "text"
    /\ bot.feedback_done
    /\ bot.at_done = <<"reject", bot.update[2]>>

\* C26: the pair send_for_approval returns is the pair that was in effect
\* when feedback_done was set: no update handled after that changes it.
C26_OutcomeFixedAtDone ==
    bot.returned # <<>> => bot.returned = bot.at_done

\* C27: main() calls post_to_mastodon only after request_approval has
\* returned, with the decision it returned, and never when that decision
\* is "reject".
C27_PostsOnlyAfterApproval ==
    [][/\ (run.entry = "main" /\ Len(run'.calls) > Len(run.calls)) =>
            /\ ~bot.polling
            /\ bot.returned # <<>>
            /\ run.decision = bot.returned[1]
            /\ run.decision # "reject"
       /\ (run'.entry = "main" /\ bot'.returned = <<>>) => run'.calls = <<>>
       /\ run'.pc = "rejected" => run'.calls = <<>>]_vars

\* main() has posted for real after an approval.
C27_PostsOnlyAfterApproval_Witness ==
    /\ run.entry = "main"
    /\ run.pc = "complete"
    /\ bot.returned[1] = "approve"
    /\ Len(run.calls) = 1
    /\ ~run.calls[1].dry_run
    /\ run.calls[1].status_posts = 1

============================================================================
